---- MODULE Spec2Model ----
(***************************************************************************)
(* Dental Call Analytics (src/app.py): a Streamlit script that loads a     *)
(* sheet of call records (load_data, memoised by st.cache_data), labels    *)
(* every record with classify_call, filters the records by the sidebar     *)
(* selections and shows key metrics, charts and a data explorer.           *)
(*                                                                         *)
(* One run of the script is modelled as a sequence of steps, pc naming the *)
(* section of the script that runs next.  A Python exception that is not   *)
(* caught ends the run (pc = "raised", error names the exception).         *)
(*                                                                         *)
(* Text is a sequence of one-character strings, so that Python's           *)
(* `w in t` and str.lower() are computed, not assumed.  A cell of a frame  *)
(* is a tagged record: the tag k is the Python type of the value.          *)
(***************************************************************************)
EXTENDS Integers, Sequences, FiniteSets, TLC

VARIABLES
    source,       \* the remote sheet: unreachable, or its raw rows
    cache,        \* st.cache_data's entry for load_data()
    fetches,      \* number of pd.read_csv calls made so far
    reported,     \* st.error of load_data is on the page of this run
    pc,           \* section of the script that runs next
    df,           \* the script's df
    filtered_df,  \* the script's filtered_df
    widgets,      \* date_range, call_direction, call_categories of this run
    kpi,          \* the key metrics of this run
    charts,       \* calls_per_day and hourly_calls of this run
    error         \* "none", or the exception that ended the run

vars == <<source, cache, fetches, reported, pc, df, filtered_df, widgets, kpi,
          charts, error>>

(***************************************************************************)
(* Bounds of the model.                                                    *)
(***************************************************************************)
\* fragments joined into one transcript handed to classify_call
MaxWords == 2
\* rows of the sheet in a whole run of the script
MaxRecords == 2
\* rows of the record set the key metrics are computed over
MaxRows == 3
\* cap of the fetches counter
MaxFetches == 2

SeqsUpTo(S, n) == UNION {[1..k -> S] : k \in 0..n}

SetMin(S) == CHOOSE m \in S : \A n \in S : m <= n

(***************************************************************************)
(* Cell values.                                                            *)
(***************************************************************************)
Str(s) == [k |-> "str", v |-> s]
EmptyStr == Str(<< >>)
NaN == [k |-> "nan"]
NaT == [k |-> "NaT"]
None == [k |-> "None"]
\* an object whose __str__ raises: the only way into classify_call's except
Unprintable == [k |-> "object"]
\* a cell of the sheet holding a well-formed timestamp text
TsText(d, h) == [k |-> "tstext", day |-> d, hour |-> h]
Timestamp(d, h) == [k |-> "ts", day |-> d, hour |-> h]
Date(d) == [k |-> "date", day |-> d]
Num(n) == [k |-> "num", v |-> n]
Label(s) == [k |-> "label", v |-> s]
\* a name of the script that is not bound yet
Unset == [k |-> "unset"]

(***************************************************************************)
(* Texts of the source and of the inputs, character by character.          *)
(***************************************************************************)
s_missed == <<"m","i","s","s","e","d">>
s_answered == <<"a","n","s","w","e","r","e","d">>
t_Answered == <<"A","n","s","w","e","r","e","d">>
t_MissedNoAnswer == <<"M","i","s","s","e","d"," ","-"," ","N","o"," ","A","n","s","w","e","r">>
t_MISSED == <<"M","I","S","S","E","D">>
t_None == <<"N","o","n","e">>
t_nan == <<"n","a","n">>
t_NaT == <<"N","a","T">>
t_Inbound == <<"I","n","b","o","u","n","d">>
t_Outbound == <<"O","u","t","b","o","u","n","d">>
t_junk == <<"n","/","a">>
t_NewPatient == <<"N","e","w"," ","P","a","t","i","e","n","t">>
f_book == <<"b","o","o","k">>
f_Bill == <<"B","i","l","l">>
f_cancel == <<"c","a","n","c","e","l">>
f_insurance == <<"i","n","s","u","r","a","n","c","e">>
f_tooth == <<"t","o","o","t","h">>
f_checkup == <<"c","h","e","c","k"," ","u","p">>
f_medicine == <<"m","e","d","i","c","i","n","e">>
f_reschedule == <<"r","e","s","c","h","e","d","u","l","e">>
f_example == <<"I"," ","n","e","e","d"," ","t","o"," ","r","e","s","c","h","e","d","u","l","e"," ","m","y"," ","a","p","p","o","i","n","t","m","e","n","t">>
f_missed == <<"m","i","s","s","e","d">>
f_hello == <<"h","e","l","l","o">>


LowerOf ==
    [A |-> "a", B |-> "b", C |-> "c", D |-> "d", E |-> "e", F |-> "f", G |-> "g", H |-> "h", I |-> "i", J |-> "j", K |-> "k", L |-> "l", M |-> "m", N |-> "n", O |-> "o", P |-> "p", Q |-> "q", R |-> "r", S |-> "s", T |-> "t", U |-> "u", V |-> "v", W |-> "w", X |-> "x", Y |-> "y", Z |-> "z"]

\* str.lower() (src/app.py:180-181, 283-284)
Lower(s) ==
    [i \in 1..Len(s) |-> IF s[i] \in DOMAIN LowerOf THEN LowerOf[s[i]] ELSE s[i]]

\* str(x) raises
StrRaises(x) == x.k = "object"

\* str(x) of a cell value (src/app.py:180-181)
PyStr(x) ==
    CASE x.k = "str" -> x.v
      [] x.k = "None" -> t_None
      [] x.k = "nan" -> t_nan
      [] x.k = "NaT" -> t_NaT
      [] OTHER -> << >>

\* Python's `w in t` on two strings
Contains(t, w) ==
    \E i \in 0..(Len(t) - Len(w)) : SubSeq(t, i + 1, i + Len(w)) = w

\* any(w in t for w in words)
AnyIn(t, words) == \E j \in 1..Len(words) : Contains(t, words[j])

(***************************************************************************)
(* classify_call (src/app.py:178-202).                                     *)
(***************************************************************************)
\* src/app.py:185  "book", "appointment", "schedule", "availability"
BookingWords ==
    << <<"b","o","o","k">>,
       <<"a","p","p","o","i","n","t","m","e","n","t">>,
       <<"s","c","h","e","d","u","l","e">>,
       <<"a","v","a","i","l","a","b","i","l","i","t","y">> >>
\* src/app.py:187  "cancel", "reschedule", "postpone"
CancelWords ==
    << <<"c","a","n","c","e","l">>,
       <<"r","e","s","c","h","e","d","u","l","e">>,
       <<"p","o","s","t","p","o","n","e">> >>
\* src/app.py:189  "insurance", "coverage", "benefit"
InsuranceWords ==
    << <<"i","n","s","u","r","a","n","c","e">>,
       <<"c","o","v","e","r","a","g","e">>,
       <<"b","e","n","e","f","i","t">> >>
\* src/app.py:191  "bill", "payment", "price", "fee", "charge"
BillingWords ==
    << <<"b","i","l","l">>,
       <<"p","a","y","m","e","n","t">>,
       <<"p","r","i","c","e">>,
       <<"f","e","e">>,
       <<"c","h","a","r","g","e">> >>
\* src/app.py:193  "pain", "tooth", "emergency", "hurt", "swelling", "broken"
ClinicalWords ==
    << <<"p","a","i","n">>,
       <<"t","o","o","t","h">>,
       <<"e","m","e","r","g","e","n","c","y">>,
       <<"h","u","r","t">>,
       <<"s","w","e","l","l","i","n","g">>,
       <<"b","r","o","k","e","n">> >>
\* src/app.py:195  "follow up", "check up", "cleaning", "exam"
FollowUpWords ==
    << <<"f","o","l","l","o","w"," ","u","p">>,
       <<"c","h","e","c","k"," ","u","p">>,
       <<"c","l","e","a","n","i","n","g">>,
       <<"e","x","a","m">> >>
\* src/app.py:197  "prescription", "medicine", "medication"
PrescriptionWords ==
    << <<"p","r","e","s","c","r","i","p","t","i","o","n">>,
       <<"m","e","d","i","c","i","n","e">>,
       <<"m","e","d","i","c","a","t","i","o","n">> >>

Categories ==
    {"Missed Call", "Appointment Booking", "Cancellation/Reschedule",
     "Insurance Inquiry", "Billing/Payment", "Emergency/Clinical",
     "Follow-up/Routine Care", "Prescription Related", "General Inquiry"}

\* the chain of src/app.py:183-200 on the lowered texts
ClassifyTexts(t, status) ==
    IF Contains(status, s_missed) THEN "Missed Call"
    ELSE IF AnyIn(t, BookingWords) THEN "Appointment Booking"
    ELSE IF AnyIn(t, CancelWords) THEN "Cancellation/Reschedule"
    ELSE IF AnyIn(t, InsuranceWords) THEN "Insurance Inquiry"
    ELSE IF AnyIn(t, BillingWords) THEN "Billing/Payment"
    ELSE IF AnyIn(t, ClinicalWords) THEN "Emergency/Clinical"
    ELSE IF AnyIn(t, FollowUpWords) THEN "Follow-up/Routine Care"
    ELSE IF AnyIn(t, PrescriptionWords) THEN "Prescription Related"
    ELSE "General Inquiry"

\* classify_call with the status test moved behind the booking rule
classify_call_StatusLate(transcript, call_status) ==
    IF StrRaises(transcript) \/ StrRaises(call_status) THEN "General Inquiry"
    ELSE LET t == Lower(PyStr(transcript))
             status == Lower(PyStr(call_status))
         IN  IF AnyIn(t, BookingWords) THEN "Appointment Booking"
             ELSE ClassifyTexts(t, status)

\* classify_call with the billing rule tested before the insurance rule
classify_call_BillingFirst(transcript, call_status) ==
    IF StrRaises(transcript) \/ StrRaises(call_status) THEN "General Inquiry"
    ELSE LET t == Lower(PyStr(transcript))
             status == Lower(PyStr(call_status))
         IN  IF ~Contains(status, s_missed) /\ ~AnyIn(t, BookingWords)
                /\ ~AnyIn(t, CancelWords) /\ AnyIn(t, BillingWords)
             THEN "Billing/Payment"
             ELSE ClassifyTexts(t, status)

\* classify_call whose last rule has no else branch behind it
classify_call_NoDefault(transcript, call_status) ==
    IF StrRaises(transcript) \/ StrRaises(call_status) THEN "General Inquiry"
    ELSE LET c == ClassifyTexts(Lower(PyStr(transcript)), Lower(PyStr(call_status)))
         IN  IF c = "General Inquiry" THEN "None" ELSE c

\* classify_call without its try/except: the exception of str() gets out
classify_call_NoExcept(transcript, call_status) ==
    IF StrRaises(transcript) \/ StrRaises(call_status) THEN "Exception"
    ELSE ClassifyTexts(Lower(PyStr(transcript)), Lower(PyStr(call_status)))

\* src/app.py:178-202
classify_call(transcript, call_status) ==
    IF StrRaises(transcript) \/ StrRaises(call_status)
    THEN "General Inquiry"                              \* except: (201-202)
    ELSE ClassifyTexts(Lower(PyStr(transcript)), Lower(PyStr(call_status)))

(***************************************************************************)
(* Frames.  A frame has a set of column names and a sequence of rows; a    *)
(* row is a record of its cells plus idx, its index label, which filters   *)
(* and copies keep.                                                        *)
(***************************************************************************)
Frame(c, r) == [cols |-> c, rows |-> r]

\* pd.DataFrame() (src/app.py:175)
EmptyFrame == Frame({}, << >>)

\* DataFrame.empty
Empty(f) == f.cols = {} \/ f.rows = << >>

\* row.get(col, default) (src/app.py:209)
Get(row, col, default) == IF col \in DOMAIN row THEN row[col] ELSE default

Extend(row, col, val) ==
    [c \in DOMAIN row \cup {col} |-> IF c = col THEN val ELSE row[c]]

\* the lambda of src/app.py:209
CategoryOf(x) ==
    classify_call(Get(x, "transcript", EmptyStr), Get(x, "Call_Status", EmptyStr))

\* src/app.py:207-209
ClassifyFrame(f) ==
    IF Empty(f) THEN f
    ELSE Frame(f.cols \cup {"Category"},
               [i \in 1..Len(f.rows) |->
                   Extend(f.rows[i], "Category", CategoryOf(f.rows[i]))])

(***************************************************************************)
(* The sheet and load_data (src/app.py:129-175).                           *)
(***************************************************************************)
\* the header of the sheet as the sheet spells it
h_Call_Time == <<" ","C","a","l","l"," ","T","i","m","e">>
h_Call_Direction == <<"C","a","l","l"," ","D","i","r","e","c","t","i","o","n">>
h_Call_Status == <<"C","a","l","l"," ","S","t","a","t","u","s"," ">>
h_transcript == <<"t","r","a","n","s","c","r","i","p","t">>
h_Conversation_Duration == <<"C","o","n","v","e","r","s","a","t","i","o","n"," ","D","u","r","a","t","i","o","n">>
n_Call_Time == <<"C","a","l","l","_","T","i","m","e">>
n_Call_Direction == <<"C","a","l","l","_","D","i","r","e","c","t","i","o","n">>
n_Call_Status == <<"C","a","l","l","_","S","t","a","t","u","s">>
n_transcript == <<"t","r","a","n","s","c","r","i","p","t">>
n_Conversation_Duration == <<"C","o","n","v","e","r","s","a","t","i","o","n","_","D","u","r","a","t","i","o","n">>
d_40 == <<"4","0">>

SheetHeader ==
    <<h_Call_Time, h_Call_Direction, h_Call_Status, h_transcript,
      h_Conversation_Duration>>

\* str.strip() of a column name (src/app.py:146)
RECURSIVE Strip(_)
Strip(s) ==
    IF s = << >> THEN s
    ELSE IF Head(s) = " " THEN Strip(Tail(s))
    ELSE IF s[Len(s)] = " " THEN Strip(SubSeq(s, 1, Len(s) - 1))
    ELSE s

\* str.replace(" ", "_") of a column name (src/app.py:146)
ReplaceSpaces(s) == [i \in 1..Len(s) |-> IF s[i] = " " THEN "_" ELSE s[i]]

\* src/app.py:146
CleanName(s) == ReplaceSpaces(Strip(s))

\* the column name as the script spells it in df[...]
Column(s) ==
    CASE s = n_Call_Time -> "Call_Time"
      [] s = n_Call_Direction -> "Call_Direction"
      [] s = n_Call_Status -> "Call_Status"
      [] s = n_transcript -> "transcript"
      [] s = n_Conversation_Duration -> "Conversation_Duration"
      [] OTHER -> "other"

\* pd.read_csv and the clean-up of the column names (src/app.py:140-146):
\* row i of the sheet becomes a record of its cells under the clean names
ReadCsv(sheet) ==
    LET names == [j \in 1..Len(sheet.header) |-> Column(CleanName(sheet.header[j]))]
        cols == {names[j] : j \in 1..Len(names)}
        at(c) == CHOOSE j \in 1..Len(names) : names[j] = c
    IN  Frame(cols,
              [i \in 1..Len(sheet.rows) |->
                  [c \in cols \cup {"idx"} |->
                      IF c = "idx" THEN i - 1 ELSE sheet.rows[i][at(c)]]])

\* a parser that takes text only: a cell that is a timestamp already is
\* coerced to NaT
ToDatetime_TextOnly(c) ==
    IF c.k = "tstext" THEN Timestamp(c.day, c.hour) ELSE NaT

\* pd.to_datetime(..., errors="coerce") of one cell (src/app.py:149)
ToDatetime(c) ==
    IF c.k \in {"tstext", "ts"} THEN Timestamp(c.day, c.hour) ELSE NaT

DayNames ==
    <<"Monday", "Tuesday", "Wednesday", "Thursday", "Friday", "Saturday", "Sunday">>

\* .dt.date, .dt.hour, .dt.day_name() of one cell (src/app.py:152-154)
DtDate(c) == IF c.k = "ts" THEN Date(c.day) ELSE NaT
DtHour(c) == IF c.k = "ts" THEN Num(c.hour) ELSE NaN
DtDayName(c) == IF c.k = "ts" THEN Label(DayNames[((c.day - 1) % 7) + 1]) ELSE NaN

IsNA(c) == c.k \in {"nan", "NaT", "None"}

\* fillna("") of one row (src/app.py:157)
FillNa(row) ==
    [c \in DOMAIN row |->
        IF c = "idx" THEN row[c]
        ELSE IF IsNA(row[c]) THEN EmptyStr ELSE row[c]]

Digits == <<"0", "1", "2", "3", "4", "5", "6", "7", "8", "9">>
IsDigits(s) ==
    /\ s # << >>
    /\ \A i \in 1..Len(s) : \E d \in 1..10 : Digits[d] = s[i]
DigitValue(ch) == (CHOOSE d \in 1..10 : Digits[d] = ch) - 1
RECURSIVE DigitsValue(_)
DigitsValue(s) ==
    IF s = << >> THEN 0
    ELSE 10 * DigitsValue(SubSeq(s, 1, Len(s) - 1)) + DigitValue(s[Len(s)])

\* pd.to_numeric(..., errors="coerce") of one cell (src/app.py:163)
ToNumeric(c) ==
    IF c.k = "num" THEN c
    ELSE IF c.k = "str" /\ IsDigits(c.v) THEN Num(DigitsValue(c.v))
    ELSE NaN

\* the duration columns of src/app.py:160 that the sheet has
DurationCols == {"Conversation_Duration"}

\* src/app.py:149-163 on one row
DeriveRow(row) ==
    LET t == [row EXCEPT !.Call_Time = ToDatetime(row.Call_Time)]
        d == Extend(Extend(Extend(t, "Date", DtDate(t.Call_Time)),
                           "Hour", DtHour(t.Call_Time)),
                    "Day_Of_Week", DtDayName(t.Call_Time))
        f == FillNa(d)
    IN  [c \in DOMAIN f |-> IF c \in DurationCols THEN ToNumeric(f[c]) ELSE f[c]]

\* src/app.py:145-163
Derive(f) ==
    Frame(f.cols \cup {"Date", "Hour", "Day_Of_Week"},
          [i \in 1..Len(f.rows) |-> DeriveRow(f.rows[i])])

\* the body of load_data (src/app.py:131-175): the frame it returns
LoadFrame(sheet) ==
    IF ~sheet.ok THEN EmptyFrame                        \* except: (173-175)
    ELSE Derive(ReadCsv(sheet))

Unreachable == [ok |-> FALSE]
Sheet(rows) == [ok |-> TRUE, header |-> SheetHeader, rows |-> rows]

NoCache == [set |-> FALSE]

\* load_data() without its decorator: every run of the script fetches
LoadData_NoCache ==
    /\ pc = "load"
    /\ fetches < MaxFetches
    /\ fetches' = fetches + 1
    /\ df' = LoadFrame(source)
    /\ reported' = ~source.ok
    /\ cache' = [set |-> TRUE, value |-> df', reported |-> reported']
    /\ pc' = "classify"
    /\ UNCHANGED <<source, filtered_df, widgets, kpi, charts, error>>

\* load_data() under @st.cache_data (src/app.py:129-130, 205): the first
\* call fetches and keeps what load_data returned, the error message
\* included; a later call gets a copy of what was kept
LoadData ==
    /\ pc = "load"
    /\ IF cache.set
       THEN /\ df' = cache.value
            /\ reported' = cache.reported
            /\ UNCHANGED <<cache, fetches>>
       ELSE /\ fetches < MaxFetches
            /\ fetches' = fetches + 1
            /\ df' = LoadFrame(source)
            /\ reported' = ~source.ok                   \* st.error (174)
            /\ cache' = [set |-> TRUE, value |-> df', reported |-> reported']
    /\ pc' = "classify"
    /\ UNCHANGED <<source, filtered_df, widgets, kpi, charts, error>>

(***************************************************************************)
(* The run of the script, section by section.                              *)
(***************************************************************************)
\* "Load Data", second half (src/app.py:207-209)
AnalyzeCalls ==
    /\ pc = "classify"
    /\ df' = ClassifyFrame(df)
    /\ pc' = "sidebar"
    /\ UNCHANGED <<source, cache, fetches, reported, filtered_df, widgets, kpi,
                   charts, error>>

\* the widgets of the sidebar have not run
NoWidgets == [bound |-> FALSE]

ColumnCells(f, col) == {f.rows[i][col] : i \in 1..Len(f.rows)}

\* Python orders two values of one type only: min(), max() and sorting of
\* an object column that mixes str and date (or str and float) raise
\* TypeError
Orderable(cells) == \A a \in cells, b \in cells : a.k = b.k

SetMax(S) == CHOOSE m \in S : \A n \in S : n <= m

\* df['Date'].min(), df['Date'].max() (src/app.py:239-240) on date cells
MinDay(f) == SetMin({c.day : c \in ColumnCells(f, "Date")})
MaxDay(f) == SetMax({c.day : c \in ColumnCells(f, "Date")})

\* what st.sidebar.date_input can return between min_value and max_value
\* (src/app.py:243-249): no date, one date (a range being picked), or a range
DateRanges(lo, hi) ==
    {<< >>} \cup {<<Date(a)>> : a \in lo..hi}
            \cup UNION {{<<Date(a), Date(b)>> : b \in a..hi} : a \in lo..hi}

\* src/app.py:268-272
DateFilter(f, w) ==
    IF Len(w.date_range) = 2
    THEN Frame(f.cols,
               SelectSeq(f.rows, LAMBDA r : /\ r.Date.day >= w.date_range[1].day
                                            /\ r.Date.day <= w.date_range[2].day))
    ELSE f

\* the direction filter applied to an empty selection as well
DirectionFilter_NoGuard(f, w) ==
    Frame(f.cols,
          SelectSeq(f.rows, LAMBDA r : r.Call_Direction \in w.call_direction))

\* src/app.py:273-274
DirectionFilter(f, w) ==
    IF w.call_direction # {}
    THEN Frame(f.cols,
               SelectSeq(f.rows, LAMBDA r : r.Call_Direction \in w.call_direction))
    ELSE f

\* the category filter that shows everything when nothing matches
CategoryFilter_Fallback(f, w) ==
    LET kept == Frame(f.cols,
                      SelectSeq(f.rows, LAMBDA r : r.Category \in w.call_categories))
    IN  IF w.call_categories # {} /\ kept.rows # << >> THEN kept ELSE f

\* src/app.py:275-276
CategoryFilter(f, w) ==
    IF w.call_categories # {}
    THEN Frame(f.cols,
               SelectSeq(f.rows, LAMBDA r : r.Category \in w.call_categories))
    ELSE f

\* src/app.py:267-276
ApplyFilters(f, w) == CategoryFilter(DirectionFilter(DateFilter(f, w), w), w)

\* "Sidebar Filters" (src/app.py:233-276)
Sidebar ==
    /\ pc = "sidebar"
    /\ IF Empty(df)
       THEN /\ widgets' = NoWidgets
            /\ filtered_df' = df                            \* df.copy() (236)
            /\ pc' = "metrics"
            /\ error' = error
       ELSE IF ~Orderable(ColumnCells(df, "Date"))
       THEN /\ widgets' = NoWidgets                     \* min() raises (239)
            /\ filtered_df' = df
            /\ pc' = "raised"
            /\ error' = "TypeError"
       ELSE IF \A c \in ColumnCells(df, "Date") : c.k # "date"
       THEN /\ widgets' = NoWidgets              \* date_input("") raises (243)
            /\ filtered_df' = df
            /\ pc' = "raised"
            /\ error' = "StreamlitAPIException"
       ELSE /\ \E dr \in DateRanges(MinDay(df), MaxDay(df)),
                  cd \in SUBSET ColumnCells(df, "Call_Direction"),
                  cc \in SUBSET ColumnCells(df, "Category") :
                    widgets' = [bound |-> TRUE, date_range |-> dr,
                                call_direction |-> cd, call_categories |-> cc]
            /\ filtered_df' = ApplyFilters(df, widgets')
            /\ pc' = "metrics"
            /\ error' = error
    /\ UNCHANGED <<source, cache, fetches, reported, df, kpi, charts>>

\* a / b rounded to the nearest integer, halves to the even one
RoundHalfEven(a, b) ==
    LET q == a \div b
        r == a % b
    IN  IF 2 * r < b THEN q
        ELSE IF 2 * r > b THEN q + 1
        ELSE IF q % 2 = 0 THEN q ELSE q + 1

\* the rate cut off after two decimals instead of rounded
Percent2_Floor(n, total) == IF total # 0 THEN (n * 10000) \div total ELSE 0

\* round((n / total) * 100, 2) if total else 0 (src/app.py:285, 289), in
\* hundredths of a percent: 1234 stands for 12.34
Percent2(n, total) == IF total # 0 THEN RoundHalfEven(n * 10000, total) ELSE 0

RECURSIVE SumCells(_)
SumCells(s) == IF s = << >> THEN 0 ELSE Head(s).v + SumCells(Tail(s))

\* round(series.mean(), 2) of a numeric column, NaN skipped, in hundredths;
\* NaN when no number is left
Mean2(rows, col) ==
    LET nums == SelectSeq([i \in 1..Len(rows) |-> rows[i][col]],
                          LAMBDA c : c.k = "num")
    IN  IF nums = << >> THEN NaN
        ELSE Num(RoundHalfEven(SumCells(nums) * 100, Len(nums)))

\* the status test without .str.lower()
StatusContains_CaseSensitive(r, w) == Contains(PyStr(r.Call_Status), w)

\* filtered_df["Call_Status"].str.lower().str.contains(w) of one record
\* (src/app.py:283-284)
StatusContains(r, w) == Contains(Lower(PyStr(r.Call_Status)), w)

\* src/app.py:281-291
FirstRowMetrics(f) ==
    IF ~Empty(f)
    THEN LET total == Len(f.rows)
             missed == Len(SelectSeq(f.rows, LAMBDA r : StatusContains(r, s_missed)))
             bookings == Len(SelectSeq(f.rows, LAMBDA r : r.Category = "Appointment Booking"))
         IN  [total_calls |-> total,
              answered_calls |-> Len(SelectSeq(f.rows, LAMBDA r : StatusContains(r, s_answered))),
              missed_calls |-> missed,
              missed_rate |-> Percent2(missed, total),
              avg_conv |-> IF "Conversation_Duration" \in f.cols
                           THEN Mean2(f.rows, "Conversation_Duration")
                           ELSE Num(0),
              new_patient_calls |-> IF "Contact_Type" \in f.cols
                                    THEN Len(SelectSeq(f.rows, LAMBDA r : r.Contact_Type = Str(t_NewPatient)))
                                    ELSE 0,
              appointment_bookings |-> bookings,
              conversion_rate |-> Percent2(bookings, total)]
    ELSE [total_calls |-> 0, answered_calls |-> 0, missed_calls |-> 0,
          missed_rate |-> 0, avg_conv |-> Num(0), new_patient_calls |-> 0,
          appointment_bookings |-> 0, conversion_rate |-> 0]

\* src/app.py:346, 356, 366
SecondRowMetrics(f) ==
    [emergency_calls |-> Len(SelectSeq(f.rows, LAMBDA r : r.Category = "Emergency/Clinical")),
     billing_calls |-> Len(SelectSeq(f.rows, LAMBDA r : r.Category = "Billing/Payment")),
     insurance_calls |-> Len(SelectSeq(f.rows, LAMBDA r : r.Category = "Insurance Inquiry"))]

Merge(a, b) ==
    [c \in DOMAIN a \cup DOMAIN b |-> IF c \in DOMAIN a THEN a[c] ELSE b[c]]

\* "Key Metrics" (src/app.py:278-373); filtered_df["Category"] of the second
\* row of metrics raises KeyError on a frame without that column
KeyMetrics ==
    /\ pc = "metrics"
    /\ IF "Category" \in filtered_df.cols
       THEN /\ kpi' = Merge(FirstRowMetrics(filtered_df),
                            SecondRowMetrics(filtered_df))
            /\ pc' = "charts"
            /\ error' = error
       ELSE /\ kpi' = FirstRowMetrics(filtered_df)
            /\ pc' = "raised"
            /\ error' = "KeyError"
    /\ UNCHANGED <<source, cache, fetches, reported, df, filtered_df, widgets,
                   charts>>

\* groupby("Date").size() (src/app.py:390): day -> number of calls
CallsPerDay(rows) ==
    [b \in {rows[i].Date.day : i \in 1..Len(rows)} |->
        Cardinality({i \in 1..Len(rows) : rows[i].Date.day = b})]

\* ['Hour'].value_counts().sort_index() (src/app.py:474): hour -> number of calls
HourlyCalls(rows) ==
    [b \in {rows[i].Hour.v : i \in 1..Len(rows)} |->
        Cardinality({i \in 1..Len(rows) : rows[i].Hour.v = b})]

\* idxmax(), idxmin() of a series sorted by its keys: the first key, in
\* ascending order, that holds the largest (smallest) count
IdxMax(counts) ==
    SetMin({b \in DOMAIN counts : \A c \in DOMAIN counts : counts[c] <= counts[b]})
IdxMin(counts) ==
    SetMin({b \in DOMAIN counts : \A c \in DOMAIN counts : counts[b] <= counts[c]})

\* groupby("Category")["Conversation_Duration"].mean() (src/app.py:502),
\* the categories without a number left out
AvgDurations(f) ==
    LET cats == ColumnCells(f, "Category")
        of(c) == Mean2(SelectSeq(f.rows, LAMBDA r : r.Category = c),
                       "Conversation_Duration")
    IN  [c \in {x \in cats : of(x).k = "num"} |-> of(c).v]

\* the series and the insights of the four tabs (src/app.py:390-502)
Charts(f) ==
    LET per_day == CallsPerDay(f.rows)
        hourly == HourlyCalls(f.rows)
    IN  [calls_per_day |-> per_day,
         peak_day |-> IdxMax(per_day),
         hourly_calls |-> hourly,
         peak_hour |-> IdxMax(hourly),
         quiet_hour |-> IdxMin(hourly),
         avg_durations |-> AvgDurations(f)]

\* "Interactive Charts Section" and "Business Insights" (src/app.py:375-551);
\* sort_index() of the hours raises TypeError when "" stands among them
VisualAnalytics ==
    /\ pc = "charts"
    /\ IF Empty(filtered_df)
       THEN /\ charts' = charts
            /\ pc' = "explorer"
            /\ error' = error
       ELSE IF ~Orderable(ColumnCells(filtered_df, "Hour"))
       THEN /\ charts' = charts
            /\ pc' = "raised"
            /\ error' = "TypeError"
       ELSE /\ charts' = Charts(filtered_df)
            /\ pc' = "explorer"
            /\ error' = error
    /\ UNCHANGED <<source, cache, fetches, reported, df, filtered_df, widgets,
                   kpi>>

\* the options of the column multiselect (src/app.py:564)
ExplorerColumns ==
    {"Call_Time", "Call_Direction", "Call_Status", "Contact_Type", "Category",
     "Conversation_Duration"}

\* "Data Explorer" and the footer (src/app.py:553-591): filtered_df[show_columns]
\* raises KeyError for a column the frame lacks, and sort_values('Call_Time')
\* for a selection that leaves Call_Time out
DataExplorer ==
    /\ pc = "explorer"
    /\ IF Empty(filtered_df)
       THEN /\ pc' = "done"                                  \* st.info (580)
            /\ error' = error
       ELSE \E show_columns \in SUBSET ExplorerColumns :
              IF show_columns = {}
                 \/ (show_columns \subseteq filtered_df.cols
                     /\ "Call_Time" \in show_columns)
              THEN /\ pc' = "done"
                   /\ error' = error
              ELSE /\ pc' = "raised"
                   /\ error' = "KeyError"
    /\ UNCHANGED <<source, cache, fetches, reported, df, filtered_df, widgets,
                   kpi, charts>>

\* a widget is touched, or the page is opened again: Streamlit runs the
\* script from its first line, with the names of the last run gone and the
\* cache of load_data kept
Rerun ==
    /\ pc \in {"done", "raised"}
    /\ pc' = "load"
    /\ df' = Unset
    /\ filtered_df' = Unset
    /\ widgets' = NoWidgets
    /\ kpi' = Unset
    /\ charts' = Unset
    /\ reported' = FALSE
    /\ error' = "none"
    /\ UNCHANGED <<source, cache, fetches>>

(***************************************************************************)
(* The sheets of the model.                                                *)
(***************************************************************************)
CallTimes == {TsText(1, 9), TsText(2, 14), Str(t_junk)}
Directions == {Str(t_Inbound), Str(t_Outbound)}
\* status, transcript and conversation duration of a call
Calls ==
    {<<Str(t_Answered), Str(f_book), Str(d_40)>>,
     <<Str(t_MissedNoAnswer), NaN, NaN>>}

\* a row of the sheet, its cells in the order of SheetHeader
SheetRows ==
    {<<t, d, c[1], c[2], c[3]>> : t \in CallTimes, d \in Directions, c \in Calls}

Sources == {Unreachable} \cup {Sheet(rows) : rows \in SeqsUpTo(SheetRows, MaxRecords)}

Init ==
    /\ source \in Sources
    /\ cache = NoCache
    /\ fetches = 0
    /\ reported = FALSE
    /\ pc = "load"
    /\ df = Unset
    /\ filtered_df = Unset
    /\ widgets = NoWidgets
    /\ kpi = Unset
    /\ charts = Unset
    /\ error = "none"

Next ==
    \/ LoadData
    \/ AnalyzeCalls
    \/ Sidebar
    \/ KeyMetrics
    \/ VisualAnalytics
    \/ DataExplorer
    \/ Rerun

Spec == Init /\ [][Next]_vars

(***************************************************************************)
(* The key metrics over larger record sets: the whole script on sheets of  *)
(* up to MaxRows calls of one day.                                         *)
(***************************************************************************)
MetricRows ==
    {<<TsText(1, 9), Str(t_Inbound), Str(t_Answered), Str(f_book), Str(d_40)>>,
     <<TsText(1, 9), Str(t_Outbound), Str(t_Answered), Str(f_Bill), Num(25)>>,
     <<TsText(1, 9), Str(t_Outbound), Str(t_MissedNoAnswer), Str(f_book), NaN>>}

InitMetrics ==
    /\ source \in {Sheet(rows) : rows \in SeqsUpTo(MetricRows, MaxRows)}
    /\ cache = NoCache
    /\ fetches = 0
    /\ reported = FALSE
    /\ pc = "load"
    /\ df = Unset
    /\ filtered_df = Unset
    /\ widgets = NoWidgets
    /\ kpi = Unset
    /\ charts = Unset
    /\ error = "none"

SpecMetrics == InitMetrics /\ [][Next]_vars

(***************************************************************************)
(* classify_call as a function: the classification step on a record set   *)
(* whose transcript and status cells are arbitrary.                        *)
(***************************************************************************)
Fragments ==
    {f_book, f_Bill, f_cancel, f_insurance, f_tooth, f_checkup, f_medicine,
     f_reschedule, f_example, f_missed, f_hello}

RECURSIVE Join(_)
Join(ws) ==
    IF ws = << >> THEN << >>
    ELSE IF Len(ws) = 1 THEN ws[1]
    ELSE ws[1] \o <<" ">> \o Join(Tail(ws))

TranscriptInputs ==
    {Str(Join(ws)) : ws \in SeqsUpTo(Fragments, MaxWords)}
        \cup {None, NaN, Unprintable}

StatusInputs ==
    {Str(t_Answered), Str(t_MissedNoAnswer), Str(t_MISSED), EmptyStr,
     None, NaN, Unprintable}

\* one row with both columns, with one of them, with neither
ClassifyRows ==
    {[idx |-> 0, transcript |-> t, Call_Status |-> s] :
        t \in TranscriptInputs, s \in StatusInputs}
    \cup {[idx |-> 0, Call_Status |-> s] : s \in StatusInputs}
    \cup {[idx |-> 0, transcript |-> t] : t \in TranscriptInputs}

SecondRows ==
    {[idx |-> 1, transcript |-> Str(f_book), Call_Status |-> Str(t_Answered)],
     [idx |-> 1, transcript |-> NaN, Call_Status |-> Str(t_MISSED)]}

ColumnsOf(row) == DOMAIN row \ {"idx"}

ClassifyFrames ==
    {Frame(ColumnsOf(r), <<r>>) : r \in ClassifyRows}
    \cup {Frame(ColumnsOf(r), <<r, r2>>) :
            r \in {x \in ClassifyRows : ColumnsOf(x) = {"transcript", "Call_Status"}},
            r2 \in SecondRows}

InitClassify ==
    /\ df \in ClassifyFrames
    /\ source = [ok |-> TRUE, rows |-> df.rows]
    /\ cache = [set |-> TRUE, value |-> df, reported |-> FALSE]
    /\ fetches = 1
    /\ reported = FALSE
    /\ pc = "classify"
    /\ filtered_df = Unset
    /\ widgets = NoWidgets
    /\ kpi = Unset
    /\ charts = Unset
    /\ error = "none"

NextClassify == AnalyzeCalls

SpecClassify == InitClassify /\ [][NextClassify]_vars

(***************************************************************************)
(* Claims about classify_call, read off the Category column that the      *)
(* classification step has written.                                        *)
(***************************************************************************)
Classified == pc = "sidebar" /\ ~Empty(df) /\ "Category" \in df.cols

TranscriptOf(r) == Get(r, "transcript", EmptyStr)
StatusOf(r) == Get(r, "Call_Status", EmptyStr)

\* the row's transcript and status are text or null-like: str() of both is defined
Readable(r) == ~StrRaises(TranscriptOf(r)) /\ ~StrRaises(StatusOf(r))

LowTranscript(r) == Lower(PyStr(TranscriptOf(r)))
LowStatus(r) == Lower(PyStr(StatusOf(r)))
IsMissed(r) == Contains(LowStatus(r), s_missed)

\* the content rules in the order the claims give them
ClaimOrder ==
    << <<"Appointment Booking", BookingWords>>,
       <<"Cancellation/Reschedule", CancelWords>>,
       <<"Insurance Inquiry", InsuranceWords>>,
       <<"Billing/Payment", BillingWords>>,
       <<"Emergency/Clinical", ClinicalWords>>,
       <<"Follow-up/Routine Care", FollowUpWords>>,
       <<"Prescription Related", PrescriptionWords>> >>

\* the rules whose keyword set the row's transcript matches
Matching(r) == {i \in 1..Len(ClaimOrder) : AnyIn(LowTranscript(r), ClaimOrder[i][2])}

\* C1: a call whose lower-cased status contains "missed" is labelled Missed
\* Call, whatever its transcript contains.
C1_MissedFirst ==
    Classified =>
        \A i \in 1..Len(df.rows) :
            LET r == df.rows[i]
            IN  (Readable(r) /\ IsMissed(r)) => r.Category = "Missed Call"

C1_Witness ==
    /\ Classified
    /\ \E i \in 1..Len(df.rows) :
          LET r == df.rows[i]
          IN  /\ Readable(r) /\ IsMissed(r)
              /\ Matching(r) # {}
              /\ r.Category = "Missed Call"

\* C2: a call that is not missed and whose transcript matches the keyword
\* sets of two or more categories gets the category that comes first in the
\* order Appointment Booking, Cancellation/Reschedule, Insurance Inquiry,
\* Billing/Payment, Emergency/Clinical, Follow-up/Routine Care, Prescription
\* Related; matching is case-insensitive substring containment.
C2_FirstRuleWins ==
    Classified =>
        \A i \in 1..Len(df.rows) :
            LET r == df.rows[i]
            IN  (Readable(r) /\ ~IsMissed(r) /\ Cardinality(Matching(r)) >= 2)
                    => r.Category = ClaimOrder[SetMin(Matching(r))][1]

\* "Bill" and "insurance" in one transcript, in either order
C2_Witness ==
    /\ Classified
    /\ \E i \in 1..Len(df.rows) :
          LET r == df.rows[i]
          IN  /\ Readable(r) /\ ~IsMissed(r)
              /\ TranscriptOf(r) = Str(f_Bill \o <<" ">> \o f_insurance)
              /\ Matching(r) = {3, 4}
              /\ r.Category = "Insurance Inquiry"

\* C3: a call that is not missed and whose transcript contains "reschedule"
\* (such as "I need to reschedule my appointment", status "Answered") is
\* labelled Cancellation/Reschedule.
C3_RescheduleIsCancellation ==
    Classified =>
        \A i \in 1..Len(df.rows) :
            LET r == df.rows[i]
            IN  (Readable(r) /\ ~IsMissed(r)
                 /\ Contains(LowTranscript(r), Lower(f_reschedule)))
                    => r.Category = "Cancellation/Reschedule"

\* C4: a call whose status does not contain "missed" and whose transcript
\* contains no keyword of any content rule is labelled General Inquiry.
C4_DefaultCategory ==
    Classified =>
        \A i \in 1..Len(df.rows) :
            LET r == df.rows[i]
            IN  (Readable(r) /\ ~IsMissed(r) /\ Matching(r) = {})
                    => r.Category = "General Inquiry"

C4_Witness ==
    /\ Classified
    /\ \E i \in 1..Len(df.rows) :
          LET r == df.rows[i]
          IN  /\ TranscriptOf(r) = Str(f_hello \o <<" ">> \o f_missed)
              /\ StatusOf(r) = Str(t_Answered)
              /\ r.Category = "General Inquiry"

\* C5: classify_call returns for every input pair, null-like ones and ones
\* whose str() fails included, and what it returns is one of the nine
\* labels: once the classification step has run on a non-empty record set
\* the run has not raised and every record carries one of the nine labels.
C5_TotalAndClosed ==
    (pc = "sidebar" /\ ~Empty(df)) =>
        /\ error = "none"
        /\ "Category" \in df.cols
        /\ \A i \in 1..Len(df.rows) :
              /\ "Category" \in DOMAIN df.rows[i]
              /\ df.rows[i].Category \in Categories

C5_Witness ==
    /\ Classified
    /\ Len(df.rows) = 2
    /\ TranscriptOf(df.rows[1]) = Unprintable
    /\ StatusOf(df.rows[1]) = None
    /\ df.rows[1].Category = "General Inquiry"
    /\ df.rows[2].Category = "Missed Call"

(***************************************************************************)
(* Claims about a run of the script.                                       *)
(***************************************************************************)
\* C6: when the fetch fails, load_data reports the error and returns an
\* empty record set, and every later section of the run (classification,
\* sidebar, key metrics with the emergency, billing and insurance counts,
\* charts, data explorer) runs on it without raising.
C6_EmptySetRendersToEnd ==
    (~source.ok /\ pc # "load") =>
        /\ reported
        /\ cache.value = EmptyFrame
        /\ error = "none"

\* the key metrics of this run are computed
MetricsShown == "missed_rate" \in DOMAIN kpi

Abs(x) == IF x < 0 THEN -x ELSE x

\* the records of the filtered set whose status contains "missed" / whose
\* category is Appointment Booking
MissedOf(f) ==
    Cardinality({i \in 1..Len(f.rows) : StatusContains(f.rows[i], s_missed)})
BookingsOf(f) ==
    Cardinality({i \in 1..Len(f.rows) : f.rows[i].Category = "Appointment Booking"})

\* C7 as stated: missed_rate is missed / total * 100 and booking_rate is
\* appointment_bookings / total * 100 when total > 0, and both are 0 when
\* total is 0 (rates in hundredths of a percent).
C7_RatesExact ==
    MetricsShown =>
        LET total == Len(filtered_df.rows)
        IN  IF total > 0
            THEN /\ kpi.missed_rate * total = MissedOf(filtered_df) * 10000
                 /\ kpi.conversion_rate * total = BookingsOf(filtered_df) * 10000
            ELSE kpi.missed_rate = 0 /\ kpi.conversion_rate = 0

\* C7 as amended: missed_rate and booking_rate are missed / total * 100 and
\* appointment_bookings / total * 100 rounded to two decimal places (at most
\* half a hundredth away, so 12 of 100 gives 12.0) when total > 0, and both
\* are 0 when total is 0.
C7_RatesRounded ==
    /\ Percent2(12, 100) = 1200
    /\ MetricsShown =>
          LET total == Len(filtered_df.rows)
          IN  /\ kpi.total_calls = total
              /\ IF total > 0
                 THEN /\ 2 * Abs(kpi.missed_rate * total
                                 - MissedOf(filtered_df) * 10000) <= total
                      /\ 2 * Abs(kpi.conversion_rate * total
                                 - BookingsOf(filtered_df) * 10000) <= total
                 ELSE kpi.missed_rate = 0 /\ kpi.conversion_rate = 0

\* two of three calls are bookings, the third is missed: 66.67 and 33.33
C7_Witness ==
    /\ MetricsShown
    /\ Len(filtered_df.rows) = 3
    /\ MissedOf(filtered_df) = 1
    /\ BookingsOf(filtered_df) = 2
    /\ kpi.missed_rate = 3333
    /\ kpi.conversion_rate = 6667

\* the sidebar of this run has run its widgets and its filters
Filtered == widgets.bound /\ pc \in {"metrics", "charts", "explorer", "done"}

Labels(f) == {f.rows[i].idx : i \in 1..Len(f.rows)}

\* the date lies within the bounds the date input gives
InBounds(r) ==
    LET dr == widgets.date_range
    IN  /\ Len(dr) >= 1 => r.Date.day >= dr[1].day
        /\ Len(dr) = 2 => r.Date.day <= dr[2].day

\* C8 as stated: for every selection, an empty selected set and an
\* incomplete date range included, a record is in the filtered set exactly
\* when its date lies within the bounds and its direction is in the selected
\* direction set and its category is in the selected category set.
C8_FilterIsConjunction ==
    Filtered =>
        Labels(filtered_df) =
            Labels(Frame(df.cols, SelectSeq(df.rows, LAMBDA r :
                /\ InBounds(r)
                /\ r.Call_Direction \in widgets.call_direction
                /\ r.Category \in widgets.call_categories)))

\* C8 as amended: a record is in the filtered set exactly when (the date
\* input is not a complete two-date range or its date lies within the
\* inclusive bounds) and (the selected direction set is empty or holds its
\* direction) and (the selected category set is empty or holds its category).
C8_FilterSkipsEmptySelections ==
    Filtered =>
        /\ Labels(filtered_df) =
              Labels(Frame(df.cols, SelectSeq(df.rows, LAMBDA r :
                  /\ Len(widgets.date_range) = 2 =>
                        /\ r.Date.day >= widgets.date_range[1].day
                        /\ r.Date.day <= widgets.date_range[2].day
                  /\ widgets.call_direction # {} =>
                        r.Call_Direction \in widgets.call_direction
                  /\ widgets.call_categories # {} =>
                        r.Category \in widgets.call_categories)))
        /\ \A i \in 1..Len(filtered_df.rows) :
              filtered_df.rows[i] = df.rows[filtered_df.rows[i].idx + 1]

\* no direction selected, one date picked, one of two categories selected
C8_Witness ==
    /\ Filtered
    /\ widgets.call_direction = {}
    /\ Len(widgets.date_range) = 1
    /\ Cardinality(widgets.call_categories) = 1
    /\ Len(df.rows) = 2
    /\ Len(filtered_df.rows) = 1

\* C9: the date, direction and category filters applied in any of the six
\* orders give the same filtered record set.
C9_FilterOrderIndependent ==
    Filtered =>
        LET w == widgets
        IN  /\ filtered_df = CategoryFilter(DirectionFilter(DateFilter(df, w), w), w)
            /\ filtered_df = DirectionFilter(CategoryFilter(DateFilter(df, w), w), w)
            /\ filtered_df = CategoryFilter(DateFilter(DirectionFilter(df, w), w), w)
            /\ filtered_df = DateFilter(CategoryFilter(DirectionFilter(df, w), w), w)
            /\ filtered_df = DirectionFilter(DateFilter(CategoryFilter(df, w), w), w)
            /\ filtered_df = DateFilter(DirectionFilter(CategoryFilter(df, w), w), w)

\* each of the three filters alone drops a record, and a record is left
C9_Witness ==
    /\ Filtered
    /\ DateFilter(df, widgets) # df
    /\ DirectionFilter(df, widgets) # df
    /\ CategoryFilter(df, widgets) # df
    /\ filtered_df.rows # << >>

\* the sheet holds a call whose Call_Time does not parse
HasNullTimestamp ==
    /\ source.ok
    /\ \E i \in 1..Len(source.rows) : ToDatetime(source.rows[i][1]) = NaT

\* C10: a record whose call_time does not parse gets a null timestamp, and
\* the min/max date of the date widget, the date filter, the grouping by
\* date and by hour and the sort by call_time all complete without raising.
C10_NullTimestampTolerated ==
    HasNullTimestamp => error \notin {"TypeError", "StreamlitAPIException"}

C12_DerivationIdempotent ==
    (cache.set /\ source.ok) =>
        /\ \A j \in 1..Len(source.header) :
              CleanName(CleanName(source.header[j])) = CleanName(source.header[j])
        /\ Derive(cache.value) = cache.value
        /\ Len(Derive(cache.value).rows) = Len(cache.value.rows)
        /\ Len(cache.value.rows) = Len(source.rows)

\* load_data has returned a set with a parsed timestamp beside a numeric
\* duration in one record, and a null timestamp beside a null duration in
\* another
C12_Witness ==
    /\ cache.set
    /\ source.ok
    /\ \E i, j \in 1..Len(cache.value.rows) :
          /\ cache.value.rows[i].Call_Time.k = "ts"
          /\ cache.value.rows[i].Conversation_Duration.k = "num"
          /\ cache.value.rows[j].Call_Time = EmptyStr
          /\ cache.value.rows[j].Date = EmptyStr
          /\ cache.value.rows[j].Conversation_Duration = NaN

(***************************************************************************)
(* C13: the classifier and the key metrics agree on missed calls.  A       *)
(* record of the classified set has category "Missed Call" exactly when    *)
(* its status, lower-cased, contains "missed"; so in every filtered set    *)
(* whose metrics are shown missed_calls is the number of records of        *)
(* category Missed Call, missed_calls + appointment_bookings is at most    *)
(* total_calls, and missed_rate + conversion_rate is at most 100, to one   *)
(* hundredth of rounding (rates in hundredths of a percent).               *)
(***************************************************************************)
C13_MissedLinksClassifierAndKpis ==
    /\ (pc \notin {"load", "classify"} /\ "Category" \in df.cols) =>
          \A i \in 1..Len(df.rows) :
              df.rows[i].Category = "Missed Call"
                  <=> Contains(Lower(PyStr(df.rows[i].Call_Status)), s_missed)
    /\ MetricsShown =>
          /\ kpi.missed_calls =
                Cardinality({i \in 1..Len(filtered_df.rows) :
                                filtered_df.rows[i].Category = "Missed Call"})
          /\ kpi.missed_calls + kpi.appointment_bookings <= kpi.total_calls
          /\ kpi.missed_rate + kpi.conversion_rate <= 10000 + 1

\* the metrics of three calls are shown: two bookings, and a missed call
\* whose transcript holds a booking keyword and whose status spells
\* "Missed" with a capital
C13_Witness ==
    /\ MetricsShown
    /\ kpi.total_calls = 3
    /\ kpi.missed_calls = 1
    /\ kpi.appointment_bookings = 2
    /\ \E i \in 1..Len(filtered_df.rows) :
          /\ filtered_df.rows[i].Category = "Missed Call"
          /\ filtered_df.rows[i].Call_Status = Str(t_MissedNoAnswer)
          /\ filtered_df.rows[i].transcript = Str(f_book)

====
